---- MODULE Spec2Model ----
(***************************************************************************)
(* A model of shocker, a minimal container runtime.                        *)
(*                                                                         *)
(*   container_registry.py  the JSON registry of container records and the *)
(*                          IP allocator (ContainerRegistry)               *)
(*   run.py                 run_container and the network set-up and       *)
(*                          tear-down it calls                             *)
(*                                                                         *)
(* Spec      the registry API, one call at a time                          *)
(* SpecConc  register / unregister of several processes, interleaved at    *)
(*           the file reads and writes                                     *)
(* SpecRun   several run_container invocations, interleaved at the kernel  *)
(*           and process operations                                        *)
(***************************************************************************)
EXTENDS Integers, Sequences, FiniteSets, Bags, TLC

\* ------------------------------------------------------------------------
\* Bounds of the model
\* ------------------------------------------------------------------------

\* the registry API is exercised on files of at most this many entries
MaxRecords == 4

\* the number of processes that call the registry concurrently
NumProcs == 2

\* the number of run_container invocations under way at the same time
NumRuns == 2

\* setup_port_forwarding is called while the rules fit in this many
MaxRules == 10
MaxLayers == 2

\* ------------------------------------------------------------------------
\* Values
\* ------------------------------------------------------------------------

\* container names handed to the registry; "containers" is an ordinary
\* name for a caller and the wrapper key of the reader's second format
Names == {"web", "db", "api", "cache", "containers"}

\* a dotted quad "a.b.c.d" as the sequence of its four numbers
IP(n) == <<69, 69, 0, n>>

\* int(ip.split('.')[-1])
LastOctet(ip) == ip[Len(ip)]

\* the (container_name, ip, netns) arguments register is called with
RegCalls ==
    { <<"web", IP(2), "ns1">>,        <<"web", IP(5), "ns2">>,
      <<"db", IP(3), "ns1">>,         <<"db", IP(254), "ns2">>,
      <<"api", IP(4), "ns1">>,        <<"api", IP(2), "ns2">>,
      <<"cache", IP(5), "ns1">>,      <<"cache", IP(3), "ns2">>,
      <<"containers", IP(2), "ns1">>, <<"containers", IP(3), "ns2">> }

\* Python's None
None == <<>>

\* A JSON string s is [str |-> s]; a JSON object is a function from its keys
\* to JSON values.
Str(s) == [str |-> s]
IsDict(v) == DOMAIN v # {"str"}
EmptyDict == [k \in {} |-> k]
Put(d, k, v) == [x \in DOMAIN d \cup {k} |-> IF x = k THEN v ELSE d[x]]
Pop(d, k) == [x \in DOMAIN d \ {k} |-> d[x]]

\* {"ip": ip, "netns": netns}
Record(ip, netns) == [ip |-> Str(ip), netns |-> Str(netns)]

Max(S) == CHOOSE m \in S : \A x \in S : x <= m

VARIABLES
    file,       \* CONTAINERS_FILE: [exists, data], data the JSON document
    last,       \* the last registry call: op, arguments, exception, result,
                \* and whether list_all() held the name when it started
    live,       \* name -> <<ip, netns>> of the calls so far: registered by a
                \* register that returned, not unregistered since
    exited      \* ip of the record removed by the unregister that came right
                \* before (None otherwise); allocate_ip and reads keep it

\* SpecConc: the registry calls of concurrent processes
VARIABLES
    cpc,        \* process -> where it is in its call: "idle", "register_save",
                \* "unregister_save"
    loaded,     \* process -> the local `containers` dict of its call
    held        \* names whose register returned and whose unregister did not

\* SpecRun: the host and the run_container invocations
VARIABLES
    bridge,          \* the link BRIDGE_NAME: [exists, up]
    listnetns,           \* the network namespaces that exist, by the run they are named after
    veth,            \* the link "veth-host": [exists, owner, peer, master, addr]
    rootfs,          \* the temporary directories that exist, by run
    socat,           \* the running socat processes, <<run, host_port>>
    rpc,             \* run -> where it is in run_container
    socat_processes, \* run -> the host ports of its socat_processes list
    exc,             \* run -> the exception that is propagating ("" for none)
    spawned,         \* run -> the command was started by chroot_execute
    container_ip,    \* run -> the address the run gave its container (None before)
    before,          \* run -> the host as it was when the run started
    overlap          \* run -> another run took a step while this one was under way

\* SpecBridge, SpecNs, SpecPorts: the kernel and the calls of networking.py
VARIABLES
    kernel,          \* [bridge, iptables, sysctl, netns, veth] of the host
    npc,             \* caller -> where it is in ensure_bridge_exists
    ndone,           \* the callers whose ensure_bridge_exists has returned
    nlast            \* the last call of networking.py that ended

\* SpecSig: the signals of a run
VARIABLES
    child            \* run -> the signals the orchestrator sent to its command

\* SpecPull: the registry of images and the pulls of one image
VARIABLES
    remote,          \* what the registry serves: [manifest_list, layers, status]
    output_dir,      \* the image directory: [exists, files], files: name -> content
    ppc,             \* where the pull is: "idle" between two pulls
    layer_i,         \* the loop variable i of pull
    requests,        \* the blob requests of the pull: <<method, i, digest>>
    pres,            \* how the latest pull ended ("" while it runs)
    pprev,           \* how the pull before it ended
    pstart           \* the files of output_dir when the latest pull started

\* SpecTear: the registry file while it is written
VARIABLES
    tpc,             \* process -> where it is in _save_containers
    tdoc,            \* process -> the `containers` dict it is saving
    observed         \* what the latest read of the registry file returned

regVars == <<last, live, exited>>
concVars == <<cpc, loaded, held>>
hostVars == <<bridge, listnetns, veth, rootfs, socat>>
runVars == <<hostVars, rpc, socat_processes, exc, spawned,
             container_ip, before, overlap>>
netVars == <<kernel, npc, ndone, nlast>>
sigVars == <<child>>
pullVars == <<remote, output_dir, ppc, layer_i, requests, pres, pprev, pstart>>
tearVars == <<tpc, tdoc, observed>>
moreVars == <<sigVars, pullVars, tearVars>>
vars == <<file, regVars, concVars, runVars, netVars, moreVars>>

\* what the actions of one specification leave alone
notReg == <<concVars, runVars, netVars, moreVars>>
notConc == <<regVars, runVars, netVars, moreVars>>
notRun == <<file, regVars, concVars, netVars, moreVars>>
notNet == <<file, regVars, concVars, runVars, moreVars>>
notSig == <<file, regVars, concVars, netVars, pullVars, tearVars>>
notPull == <<file, regVars, concVars, runVars, netVars, sigVars, tearVars>>
notTear == <<regVars, concVars, runVars, netVars, sigVars, pullVars>>

\* ------------------------------------------------------------------------
\* container_registry.py
\* ------------------------------------------------------------------------

NoFile == [exists |-> FALSE, data |-> EmptyDict]

\* ContainerRegistry._load_containers
_load_containers(f) ==
    IF ~f.exists THEN EmptyDict
    ELSE IF IsDict(f.data) /\ "containers" \in DOMAIN f.data
         THEN f.data["containers"]
         ELSE f.data

\* ContainerRegistry._save_containers
_save_containers(containers) == [exists |-> TRUE, data |-> containers]

Ok(v) == [raised |-> "", ret |-> v]
Raise(e) == [raised |-> e, ret |-> None]

\* an allocator that hands out the highest address in use again
NextIpNoIncrement(used_ips) == Max(used_ips)

\* an allocator that takes the lowest free address from .2 on
NextIpLowestFree(used_ips) ==
    CHOOSE n \in 2..(Max(used_ips) + 1) :
        /\ n \notin used_ips
        /\ \A m \in 2..(n - 1) : m \in used_ips

\* max(used_ips) + 1
NextIp(used_ips) == Max(used_ips) + 1

\* ContainerRegistry.allocate_ip
allocate_ip(f) ==
    LET containers == _load_containers(f) IN
    IF DOMAIN containers = {} THEN Ok(IP(2))
    ELSE IF \E k \in DOMAIN containers : ~IsDict(containers[k])
         THEN Raise("TypeError")       \* info['ip'] on a str
    ELSE IF \E k \in DOMAIN containers : "ip" \notin DOMAIN containers[k]
         THEN Raise("KeyError")
    ELSE LET used_ips ==
                 { LastOctet(containers[k]["ip"].str) : k \in DOMAIN containers }
         IN  Ok(IP(NextIp(used_ips)))

\* ContainerRegistry.register: the file it leaves and how it ends
register(f, container_name, ip, netns) ==
    LET containers == _load_containers(f) IN
    IF container_name \in DOMAIN containers
    THEN [file |-> f, res |-> Raise("ValueError")]
    ELSE [file |-> _save_containers(
                       Put(containers, container_name, Record(ip, netns))),
          res |-> Ok(None)]

\* an unregister that saves a registry without any record
unregisterAll(f, container_name) ==
    [file |-> _save_containers(EmptyDict), res |-> Ok(None)]

\* ContainerRegistry.unregister
unregister(f, container_name) ==
    [file |-> _save_containers(Pop(_load_containers(f), container_name)),
     res |-> Ok(None)]

\* ContainerRegistry.list_all
list_all(f) == _load_containers(f)

\* ContainerRegistry.get_ip
get_ip(f, container_name) ==
    LET containers == list_all(f) IN
    IF container_name \notin DOMAIN containers THEN Ok(None)
    ELSE IF ~IsDict(containers[container_name])
         THEN Raise("AttributeError")  \* str has no .get
    ELSE IF "ip" \in DOMAIN containers[container_name]
         THEN Ok(containers[container_name]["ip"].str)
         ELSE Ok(None)

\* ContainerRegistry.get_hosts_entries: the lines "<ip>\t<name>" as the set
\* of their <<ip, name>>
get_hosts_entries(f) ==
    LET containers == list_all(f) IN
    IF \E k \in DOMAIN containers : ~IsDict(containers[k])
    THEN Raise("TypeError")
    ELSE IF \E k \in DOMAIN containers : "ip" \notin DOMAIN containers[k]
         THEN Raise("KeyError")
    ELSE Ok({ <<containers[k]["ip"].str, k>> : k \in DOMAIN containers })

\* setup_dns (networking.py): the lines of /etc/hosts before the entries
HostsPrelude ==
    << "127.0.0.1\tlocalhost",
       "::1\t\tlocalhost ip6-localhost ip6-loopback",
       "fe00::0\t\tip6-localnet",
       "ff00::0\t\tip6-mcastprefix",
       "ff02::1\t\tip6-allnodes",
       "ff02::2\t\tip6-allrouters",
       "",
       "# Container hostnames" >>

\* setup_dns (networking.py): the hosts file it writes, as the prelude and
\* the set of <<ip, name>> of the lines after it
setup_dns(f) ==
    LET container_entries == get_hosts_entries(f) IN
    IF container_entries.raised # ""
    THEN Raise(container_entries.raised)
    ELSE Ok([prelude |-> HostsPrelude, entries |-> container_entries.ret])

\* ------------------------------------------------------------------------
\* Spec: the registry API, one call at a time
\* ------------------------------------------------------------------------

Call(op, name, ip, netns, had, res) ==
    [op |-> op, name |-> name, ip |-> ip, netns |-> netns, had |-> had,
     raised |-> res.raised, ret |-> res.ret]

NoCall == Call("", "", None, "", FALSE, Ok(None))

Procs == 1..NumProcs

RegInit ==
    /\ file = NoFile
    /\ last = NoCall
    /\ live = EmptyDict
    /\ exited = None

ConcInit ==
    /\ cpc = [p \in Procs |-> "idle"]
    /\ loaded = [p \in Procs |-> EmptyDict]
    /\ held = {}

AllocateIp ==
    /\ last' = Call("allocate_ip", "", None, "", FALSE, allocate_ip(file))
    /\ UNCHANGED <<file, live, exited, notReg>>

Register(name, ip, netns) ==
    LET r == register(file, name, ip, netns) IN
    /\ Cardinality(DOMAIN file.data) < MaxRecords
    /\ file' = r.file
    /\ last' = Call("register", name, ip, netns,
                    name \in DOMAIN list_all(file), r.res)
    /\ live' = IF r.res.raised = "" THEN Put(live, name, <<ip, netns>>) ELSE live
    /\ exited' = None
    /\ UNCHANGED notReg

Unregister(name) ==
    LET r == unregister(file, name)
        was == get_ip(file, name)
    IN
    /\ file' = r.file
    /\ last' = Call("unregister", name, None, "",
                    name \in DOMAIN list_all(file), r.res)
    /\ live' = Pop(live, name)
    /\ exited' = IF was.raised = "" THEN was.ret ELSE None
    /\ UNCHANGED notReg

GetIp(name) ==
    /\ last' = Call("get_ip", name, None, "", FALSE, get_ip(file, name))
    /\ UNCHANGED <<file, live, exited, notReg>>

GetHostsEntries ==
    /\ last' = Call("get_hosts_entries", "", None, "", FALSE,
                    get_hosts_entries(file))
    /\ UNCHANGED <<file, live, exited, notReg>>


SetupDns ==
    /\ last' = Call("setup_dns", "", None, "", FALSE, setup_dns(file))
    /\ UNCHANGED <<file, live, exited, notReg>>

\* the host before any run_container (run.py)
\* CONTAINER_IP
CONTAINER_IP == IP(2)

Runs == 1..NumRuns

\* the port_mappings a run is started with
PortChoices == { <<>>, << <<8080, 80>> >> }

HostPorts(pm) == { pm[i][1] : i \in DOMAIN pm }

\* where a link is: in no network namespace of a run
HostNs == {}

NoVeth == [exists |-> FALSE, owner |-> 0, peer |-> HostNs, master |-> FALSE,
           addr |-> None]

\* port forwarders, veth interfaces, network namespaces, registry records
Host(f, v, n, s) == [file |-> f, veth |-> v, netns |-> n, socat |-> s]

NoHost == Host(NoFile, NoVeth, {}, {})

RunInit ==
    /\ bridge = [exists |-> FALSE, up |-> FALSE]
    /\ listnetns = {}
    /\ veth = NoVeth
    /\ rootfs = {}
    /\ socat = {}
    /\ rpc = [p \in Runs |-> "start"]
    /\ socat_processes = [p \in Runs |-> {}]
    /\ exc = [p \in Runs |-> ""]
    /\ spawned = [p \in Runs |-> FALSE]
    /\ container_ip = [p \in Runs |-> None]
    /\ before = [p \in Runs |-> NoHost]
    /\ overlap = [p \in Runs |-> FALSE]

\* ------------------------------------------------------------------------
\* networking.py: the kernel state its functions work on
\* ------------------------------------------------------------------------

\* BRIDGE_IP
BRIDGE_IP == IP(1)

\* the subnet '69.69.0.0/24' of the forwarding rule
BridgeSubnet == <<69, 69, 0, 0, 24>>

\* an iptables rule: table, chain, the match and the target
\* (sport, dport: 0 for no match on the port)
Rule(table, chain, proto, src, dst, sport, dport, state, target, to) ==
    [table |-> table, chain |-> chain, proto |-> proto, src |-> src,
     dst |-> dst, sport |-> sport, dport |-> dport, state |-> state,
     target |-> target, to |-> to]

NoBridge == [exists |-> FALSE, addr |-> None, up |-> FALSE]

\* the host before any call: no link, no rule, no namespace
NoKernel ==
    [bridge |-> NoBridge, iptables |-> EmptyBag, sysctl |-> {},
     netns |-> {}, veth |-> EmptyDict]

NetCall(op, args, k, res) ==
    [op |-> op, args |-> args, before |-> k, raised |-> res.raised]

NetInit ==
    /\ kernel = NoKernel
    /\ npc = [p \in Procs |-> "idle"]
    /\ ndone = {}
    /\ nlast = NetCall("", <<>>, NoKernel, Ok(None))

SigInit == child = [p \in Runs |-> <<>>]

\* docker_registry.py: the values of a pull.  A digest "alg:hex" is the pair
\* of its two parts.
Digest(hex) == <<"sha256", hex>>
Digests == {Digest("a"), Digest("b")}

\* the manifests: at most MaxLayers layers
Manifests == UNION { [1..n -> Digests] : n \in 0..MaxLayers }

\* an entry of the manifest list
Entry(os, architecture, digest) ==
    [platform |-> [architecture |-> architecture, os |-> os], digest |-> digest]

ManifestLists ==
    { <<Entry("linux", "arm64", Digest("n")), Entry("linux", "amd64", Digest("m"))>>,
      <<Entry("linux", "arm64", Digest("n")), Entry("windows", "amd64", Digest("w"))>> }

\* the status codes a blob request is answered with
StatusCodes == {200, 400, 404}

Remotes ==
    [manifest_list : ManifestLists, layers : Manifests,
     status : [Digests -> StatusCodes]]

\* the registry before the image is published
NoRemote ==
    [manifest_list |-> <<>>, layers |-> <<>>, status |-> [d \in Digests |-> 404]]

NoDir == [exists |-> FALSE, files |-> EmptyDict]

PullInit ==
    /\ remote = NoRemote
    /\ output_dir = NoDir
    /\ ppc = "idle"
    /\ layer_i = 0
    /\ requests = {}
    /\ pres = ""
    /\ pprev = ""
    /\ pstart = EmptyDict

TearInit ==
    /\ tpc = [p \in Procs |-> "idle"]
    /\ tdoc = [p \in Procs |-> EmptyDict]
    /\ observed = Ok(EmptyDict)

Init ==
    RegInit /\ ConcInit /\ RunInit /\ NetInit /\ SigInit /\ PullInit /\ TearInit

Next ==
    \/ AllocateIp
    \/ \E c \in RegCalls : Register(c[1], c[2], c[3])
    \/ \E name \in Names : Unregister(name)
    \/ \E name \in Names : GetIp(name)
    \/ GetHostsEntries
    \/ SetupDns

Spec == Init /\ [][Next]_vars

\* ------------------------------------------------------------------------
\* SpecConc: register and unregister of concurrent processes.  Each process
\* registers and unregisters a name of its own; a call reads the file in
\* _load_containers and writes it in _save_containers, and the calls of the
\* other processes run in between.
\* ------------------------------------------------------------------------

\* the name process p gives its container
ProcName == <<"web", "db", "api", "cache">>

\* the (ip, netns) process p registers with
ProcInputs(p) == { <<c[2], c[3]>> : c \in { x \in RegCalls : x[1] = ProcName[p] } }

\* register, lines 50-54: load, and raise when the name is there
ConcRegisterLoad(p, ip, netns) ==
    LET containers == _load_containers(file) IN
    /\ cpc[p] = "idle"
    /\ IF ProcName[p] \in DOMAIN containers
       THEN UNCHANGED <<cpc, loaded>>
       ELSE /\ loaded' =
                  [loaded EXCEPT ![p] = Put(containers, ProcName[p], Record(ip, netns))]
            /\ cpc' = [cpc EXCEPT ![p] = "register_save"]
    /\ UNCHANGED <<file, held, notConc>>

\* register, line 60: save and return
ConcRegisterSave(p) ==
    /\ cpc[p] = "register_save"
    /\ file' = _save_containers(loaded[p])
    /\ cpc' = [cpc EXCEPT ![p] = "idle"]
    /\ held' = held \cup {ProcName[p]}
    /\ UNCHANGED <<loaded, notConc>>

\* unregister, lines 65-66: load and pop
ConcUnregisterLoad(p) ==
    /\ cpc[p] = "idle"
    /\ loaded' =
          [loaded EXCEPT ![p] = Pop(_load_containers(file), ProcName[p])]
    /\ cpc' = [cpc EXCEPT ![p] = "unregister_save"]
    /\ UNCHANGED <<file, held, notConc>>

\* unregister, line 67: save and return
ConcUnregisterSave(p) ==
    /\ cpc[p] = "unregister_save"
    /\ file' = _save_containers(loaded[p])
    /\ cpc' = [cpc EXCEPT ![p] = "idle"]
    /\ held' = held \ {ProcName[p]}
    /\ UNCHANGED <<loaded, notConc>>

ConcNext ==
    \/ \E p \in Procs : \E a \in ProcInputs(p) : ConcRegisterLoad(p, a[1], a[2])
    \/ \E p \in Procs : ConcRegisterSave(p)
    \/ \E p \in Procs : ConcUnregisterLoad(p)
    \/ \E p \in Procs : ConcUnregisterSave(p)

SpecConc == Init /\ [][ConcNext]_vars

\* C3: no update is lost: when every call has returned, the registry holds
\* exactly the names that were registered and not unregistered.
C3_NoLostUpdate ==
    (\A p \in Procs : cpc[p] = "idle") => DOMAIN list_all(file) = held

\* ------------------------------------------------------------------------
\* run.py: run_container and the network functions it calls.  SpecRun
\* interleaves the invocations at the netlink and process operations.
\* ------------------------------------------------------------------------

UnderWay(p) == rpc[p] \notin {"start", "returned", "raised"}

\* the runs that run p overlaps when it takes a step
Overlapped(p) == [r \in Runs |-> overlap[r] \/ (r # p /\ UnderWay(r))]

\* the snapshots once run p has taken a step: a snapshot is kept for as long
\* as no other run has stepped
Snapshots(p) == [r \in Runs |-> IF Overlapped(p)[r] THEN NoHost ELSE before[r]]

\* run p takes a step and moves to `to`
Goto(p, to) ==
    /\ rpc' = [rpc EXCEPT ![p] = to]
    /\ overlap' = Overlapped(p)
    /\ before' = Snapshots(p)

\* an exception inside setup_network_namespace: its except clause
FailSetup(p, e) ==
    /\ exc' = [exc EXCEPT ![p] = e]
    /\ Goto(p, "except_veth_del")

\* the effective user ids and the states of the image directory that an
\* invocation can meet
Euids == {0, 1000}
ImageDirs == {"missing", "no_layers", "layers"}

\* an entry check that does not look at the user id
entry_checks_no_euid(euid, image_dir) ==
    IF image_dir = "missing" THEN "FileNotFoundError"
    ELSE IF image_dir = "no_layers" THEN "FileNotFoundError"
    ELSE "ok"

\* run_container, lines 324-335: the checks at entry, in the order of the
\* code: the user id, the image directory, its layer_*.tar.gz files
entry_checks(euid, image_dir) ==
    IF euid # 0 THEN "PermissionError"
    ELSE IF image_dir = "missing" THEN "FileNotFoundError"
    ELSE IF image_dir = "no_layers" THEN "FileNotFoundError"
    ELSE "ok"

\* how the entry checks can end, over every user id and image directory
EntryOutcomes ==
    { entry_checks(euid, image_dir) : euid \in Euids, image_dir \in ImageDirs }

\* run_container, lines 321-344: an invocation starts in slot p (the one
\* before it in the slot is over); the checks and mkdtemp
RunEntry(p, check) ==
    /\ ~UnderWay(p)
    /\ rpc' = [rpc EXCEPT ![p] = IF check = "ok" THEN "bridge_lookup" ELSE "raised"]
    /\ overlap' = [Overlapped(p) EXCEPT ![p] = \E q \in Runs \ {p} : UnderWay(q)]
    /\ before' = [Snapshots(p) EXCEPT ![p] =
                    IF \E q \in Runs \ {p} : UnderWay(q) THEN NoHost
                    ELSE Host(file, veth, listnetns, socat)]
    /\ exc' = [exc EXCEPT ![p] = IF check = "ok" THEN "" ELSE check]
    /\ rootfs' = IF check = "ok" THEN rootfs \cup {p} ELSE rootfs
    /\ socat_processes' = [socat_processes EXCEPT ![p] = {}]
    /\ spawned' = [spawned EXCEPT ![p] = FALSE]
    /\ container_ip' = [container_ip EXCEPT ![p] = None]
    /\ UNCHANGED <<bridge, listnetns, veth, socat, notRun>>

\* ensure_bridge_exists, lines 22-27: link_lookup
BridgeLookup(p) ==
    /\ rpc[p] = "bridge_lookup"
    /\ Goto(p, IF bridge.exists THEN "netns_create" ELSE "bridge_add")
    /\ UNCHANGED <<hostVars, socat_processes, exc, spawned,
                   container_ip, notRun>>

\* ensure_bridge_exists, line 30: link add (fails when the link is there)
BridgeAdd(p) ==
    /\ rpc[p] = "bridge_add"
    /\ IF bridge.exists
       THEN FailSetup(p, "NetlinkError") /\ UNCHANGED bridge
       ELSE /\ bridge' = [exists |-> TRUE, up |-> FALSE]
            /\ Goto(p, "bridge_conf")
            /\ UNCHANGED exc
    /\ UNCHANGED <<listnetns, veth, rootfs, socat, socat_processes,
                   spawned, container_ip, notRun>>

\* ensure_bridge_exists, lines 31-35: address and state up
BridgeConf(p) ==
    /\ rpc[p] = "bridge_conf"
    /\ bridge' = [exists |-> TRUE, up |-> TRUE]
    /\ Goto(p, "netns_create")
    /\ UNCHANGED <<listnetns, veth, rootfs, socat, socat_processes,
                   exc, spawned, container_ip, notRun>>

\* setup_network_namespace, line 53: netns.create
NetnsCreate(p) ==
    /\ rpc[p] = "netns_create"
    /\ listnetns' = listnetns \cup {p}
    /\ Goto(p, "veth_add")
    /\ UNCHANGED <<bridge, veth, rootfs, socat, socat_processes,
                   exc, spawned, container_ip, notRun>>

\* setup_network_namespace, line 62: link add veth-host peer eth0
VethAdd(p) ==
    /\ rpc[p] = "veth_add"
    /\ IF veth.exists
       THEN FailSetup(p, "NetlinkError") /\ UNCHANGED veth
       ELSE /\ veth' = [exists |-> TRUE, owner |-> p, peer |-> HostNs,
                        master |-> FALSE, addr |-> None]
            /\ Goto(p, "veth_move")
            /\ UNCHANGED exc
    /\ UNCHANGED <<bridge, listnetns, rootfs, socat, socat_processes,
                   spawned, container_ip, notRun>>

\* setup_network_namespace, lines 65-66: eth0 of the host moves to the namespace
VethMove(p) ==
    /\ rpc[p] = "veth_move"
    /\ IF veth.exists /\ veth.peer = HostNs
       THEN /\ veth' = [veth EXCEPT !.peer = {p}]
            /\ Goto(p, "veth_attach")
            /\ UNCHANGED exc
       ELSE FailSetup(p, "IndexError") /\ UNCHANGED veth
    /\ UNCHANGED <<bridge, listnetns, rootfs, socat, socat_processes,
                   spawned, container_ip, notRun>>

\* setup_network_namespace, lines 69-71: veth-host joins the bridge
VethAttach(p) ==
    /\ rpc[p] = "veth_attach"
    /\ IF veth.exists
       THEN /\ veth' = [veth EXCEPT !.master = TRUE]
            /\ Goto(p, "ns_config")
            /\ UNCHANGED exc
       ELSE FailSetup(p, "IndexError") /\ UNCHANGED veth
    /\ UNCHANGED <<bridge, listnetns, rootfs, socat, socat_processes,
                   spawned, container_ip, notRun>>

\* a namespace configuration that assigns no address to eth0
NsConfigNoAddr(p) ==
    /\ rpc[p] = "ns_config"
    /\ IF veth.exists /\ veth.peer = {p}
       THEN Goto(p, "ports") /\ UNCHANGED exc
       ELSE FailSetup(p, "IndexError")
    /\ UNCHANGED <<bridge, listnetns, veth, rootfs, socat, socat_processes,
                   spawned, container_ip, notRun>>

\* setup_network_namespace, lines 74-84: eth0 inside the namespace gets
\* CONTAINER_IP, goes up, and the default route is added
NsConfig(p) ==
    /\ rpc[p] = "ns_config"
    /\ IF veth.exists /\ veth.peer = {p}
       THEN /\ veth' = [veth EXCEPT !.addr = CONTAINER_IP]
            /\ container_ip' = [container_ip EXCEPT ![p] = CONTAINER_IP]
            /\ Goto(p, "ports")
            /\ UNCHANGED exc
       ELSE FailSetup(p, "IndexError") /\ UNCHANGED <<veth, container_ip>>
    /\ UNCHANGED <<bridge, listnetns, rootfs, socat, socat_processes,
                   spawned, notRun>>

\* cleanup_network_namespace, lines 98-104: the link "veth-host" is deleted
\* if it is there; in the except clause of
\* setup_network_namespace (line 91) and in the finally of run_container
\* (line 387)
VethDel(p) ==
    /\ rpc[p] \in {"except_veth_del", "finally_veth_del"}
    /\ veth' = NoVeth
    /\ Goto(p, IF rpc[p] = "except_veth_del" THEN "except_netns_remove"
                                            ELSE "finally_netns_remove")
    /\ UNCHANGED <<bridge, listnetns, rootfs, socat, socat_processes,
                   exc, spawned, container_ip, notRun>>

\* a netns.remove that takes the bridge with it
NetnsRemoveAndBridge(p) ==
    /\ rpc[p] \in {"except_netns_remove", "finally_netns_remove"}
    /\ listnetns' = listnetns \ {p}
    /\ bridge' = [exists |-> FALSE, up |-> FALSE]
    /\ Goto(p, IF rpc[p] = "except_netns_remove" THEN "raised" ELSE "rmtree")
    /\ UNCHANGED <<veth, rootfs, socat, socat_processes,
                   exc, spawned, container_ip, notRun>>

\* a netns.remove that does nothing in the except clause of the setup
NetnsRemoveFinallyOnly(p) ==
    /\ rpc[p] \in {"except_netns_remove", "finally_netns_remove"}
    /\ listnetns' = IF rpc[p] = "except_netns_remove" THEN listnetns
                                                       ELSE listnetns \ {p}
    /\ Goto(p, IF rpc[p] = "except_netns_remove" THEN "raised" ELSE "rmtree")
    /\ UNCHANGED <<bridge, veth, rootfs, socat, socat_processes,
                   exc, spawned, container_ip, notRun>>

\* cleanup_network_namespace, lines 107-111: netns.remove; the except clause
\* then re-raises (line 92) and run_container ends with the exception
NetnsRemove(p) ==
    /\ rpc[p] \in {"except_netns_remove", "finally_netns_remove"}
    /\ listnetns' = listnetns \ {p}
    /\ Goto(p, IF rpc[p] = "except_netns_remove" THEN "raised" ELSE "rmtree")
    /\ UNCHANGED <<bridge, veth, rootfs, socat, socat_processes,
                   exc, spawned, container_ip, notRun>>

\* setup_port_forwarding_socat: the socat processes that listen once the
\* Popen calls for the host ports `started` have succeeded (a socat whose
\* port is taken exits)
setup_port_forwarding_socat(p, started) ==
    socat \cup { <<p, h>> : h \in { x \in started : \A s \in socat : s[2] # x } }

\* run_container, lines 350-352, setup_port_forwarding_socat with the
\* port_mappings argument pm: a Popen that fails is skipped
SetupPorts(p, pm, started) ==
    /\ rpc[p] = "ports"
    /\ started \subseteq HostPorts(pm)
    /\ socat' = setup_port_forwarding_socat(p, started)
    /\ socat_processes' = [socat_processes EXCEPT ![p] = started]
    /\ Goto(p, "extract")
    /\ UNCHANGED <<bridge, listnetns, veth, rootfs, exc, spawned,
                   container_ip, notRun>>

\* run_container, lines 356-367: the layers are extracted and setup_dns
\* copies resolv.conf; an error goes to the finally clause
Extract(p, ok) ==
    /\ rpc[p] = "extract"
    /\ IF ok
       THEN Goto(p, "spawn") /\ UNCHANGED exc
       ELSE Goto(p, "finally_socat") /\ exc' = [exc EXCEPT ![p] = "TarError"]
    /\ UNCHANGED <<hostVars, socat_processes, spawned,
                   container_ip, notRun>>

\* chroot_execute, line 148: subprocess.run starts the command
Spawn(p) ==
    /\ rpc[p] = "spawn"
    /\ spawned' = [spawned EXCEPT ![p] = TRUE]
    /\ Goto(p, "running")
    /\ UNCHANGED <<hostVars, socat_processes, exc,
                   container_ip, notRun>>

\* chroot_execute, line 148: the command exits; check=True raises on a
\* non-zero code
ChildExit(p, returncode) ==
    /\ rpc[p] = "running"
    /\ exc' = [exc EXCEPT ![p] =
                 IF returncode = 0 THEN "" ELSE "CalledProcessError"]
    /\ Goto(p, "finally_socat")
    /\ UNCHANGED <<hostVars, socat_processes, spawned,
                   container_ip, notRun>>

\* a cleanup that terminates no process
cleanup_port_forwarding_socat_none(p) == socat

\* cleanup_port_forwarding_socat: every process of the list is terminated
cleanup_port_forwarding_socat(p) ==
    socat \ { <<p, h>> : h \in socat_processes[p] }

\* run_container, lines 384-385
CleanupSocat(p) ==
    /\ rpc[p] = "finally_socat"
    /\ socat' = cleanup_port_forwarding_socat(p)
    /\ Goto(p, "finally_veth_del")
    /\ UNCHANGED <<bridge, listnetns, veth, rootfs, socat_processes,
                   exc, spawned, container_ip, notRun>>

\* run_container, line 391: shutil.rmtree, and the function ends
Rmtree(p) ==
    /\ rpc[p] = "rmtree"
    /\ rootfs' = rootfs \ {p}
    /\ Goto(p, IF exc[p] = "" THEN "returned" ELSE "raised")
    /\ UNCHANGED <<bridge, listnetns, veth, socat, socat_processes,
                   exc, spawned, container_ip, notRun>>

RunNext ==
    \/ \E p \in Runs, check \in EntryOutcomes : RunEntry(p, check)
    \/ \E p \in Runs : BridgeLookup(p)
    \/ \E p \in Runs : BridgeAdd(p)
    \/ \E p \in Runs : BridgeConf(p)
    \/ \E p \in Runs : NetnsCreate(p)
    \/ \E p \in Runs : VethAdd(p)
    \/ \E p \in Runs : VethMove(p)
    \/ \E p \in Runs : VethAttach(p)
    \/ \E p \in Runs : NsConfig(p)
    \/ \E p \in Runs : VethDel(p)
    \/ \E p \in Runs : NetnsRemove(p)
    \/ \E p \in Runs, pm \in PortChoices : \E started \in SUBSET HostPorts(pm) :
          SetupPorts(p, pm, started)
    \/ \E p \in Runs, ok \in BOOLEAN : Extract(p, ok)
    \/ \E p \in Runs : Spawn(p)
    \/ \E p \in Runs, returncode \in {0, 1} : ChildExit(p, returncode)
    \/ \E p \in Runs : CleanupSocat(p)
    \/ \E p \in Runs : Rmtree(p)

SpecRun == Init /\ [][RunNext]_vars

\* ------------------------------------------------------------------------
\* run.py under signals.  run.py installs no signal handler, so SpecSig
\* adds to SpecRun what Python does with a signal that arrives while
\* subprocess.run waits for the command.
\* ------------------------------------------------------------------------

\* SIGINT while chroot_execute waits, line 148: KeyboardInterrupt is raised
\* in subprocess.run, whose except clause kills the command (SIGKILL) and
\* re-raises; the exception passes through the finally clause of lines
\* 382-391
Sigint(p) ==
    /\ rpc[p] = "running"
    /\ child' = [child EXCEPT ![p] = <<"SIGKILL">>]
    /\ exc' = [exc EXCEPT ![p] = "KeyboardInterrupt"]
    /\ Goto(p, "finally_socat")
    /\ UNCHANGED <<hostVars, socat_processes, spawned, container_ip, notSig>>

\* SIGTERM while chroot_execute waits, line 148: with no handler the default
\* action ends the interpreter at once; no except or finally clause runs and
\* the command, which has received nothing, goes on
Sigterm(p) ==
    /\ rpc[p] = "running"
    /\ child' = [child EXCEPT ![p] = <<>>]
    /\ Goto(p, "terminated")
    /\ UNCHANGED <<hostVars, socat_processes, exc, spawned, container_ip,
                   notSig>>

SigNext ==
    \/ RunNext
    \/ \E p \in Runs : Sigint(p)
    \/ \E p \in Runs : Sigterm(p)

SpecSig == Init /\ [][SigNext]_vars

\* ------------------------------------------------------------------------
\* docker_registry.py: DockerRegistryClient.pull.  SpecPull runs one pull
\* after another of the same image against a registry that does not change;
\* a pull can be interrupted (the process is killed) at any step.
\* ------------------------------------------------------------------------

\* the decimal digits of n
RECURSIVE Digits(_)
Digits(n) == IF n < 10 THEN <<n>> ELSE Append(Digits(n \div 10), n % 10)

\* f"{i:03d}": zero-padded to three digits at least
RECURSIVE ZeroPad(_, _)
ZeroPad(ds, width) == IF Len(ds) >= width THEN ds ELSE ZeroPad(<<0>> \o ds, width)

\* layer_digest.replace(':', '_')
Underscored(digest) == <<digest[1], "_", digest[2]>>

\* pull, line 148: the name of the file of layer i
layer_filename(i, digest) == <<"layer_", ZeroPad(Digits(i), 3), "_", Underscored(digest)>>

\* the content of a file: the bytes of a blob, all of them or a part
Complete(digest) == [blob |-> digest, complete |-> TRUE]
Partial(digest) == [blob |-> digest, complete |-> FALSE]

\* a platform lookup that falls back to the first entry of the list
RECURSIVE _get_platform_manifest_digest_first(_, _, _)
_get_platform_manifest_digest_first(manifest_list, architecture, os) ==
    IF manifest_list = <<>> THEN Raise("ValueError: Platform not found")
    ELSE Ok(manifest_list[1].digest)

\* _get_platform_manifest_digest: the digest of the first entry of the
\* platform, ValueError when there is none
RECURSIVE _get_platform_manifest_digest(_, _, _)
_get_platform_manifest_digest(manifest_list, architecture, os) ==
    IF manifest_list = <<>> THEN Raise("ValueError: Platform not found")
    ELSE IF /\ manifest_list[1].platform.architecture = architecture
            /\ manifest_list[1].platform.os = os
         THEN Ok(manifest_list[1].digest)
         ELSE _get_platform_manifest_digest(Tail(manifest_list), architecture, os)

\* _check_blob_exists, line 84
_check_blob_exists(status_code) == status_code <= 400

\* response.raise_for_status(): HTTPError for 4xx and 5xx
raise_for_status(status_code) == status_code >= 400

\* a check of the layer path that never finds the file
layer_path_exists_never(files, name) == FALSE

\* pull, line 151: layer_path.exists()
layer_path_exists(files, name) == name \in DOMAIN files

\* a loop that ends at the first layer it skips
LeaveLoop(i, n) == [ppc |-> "idle", layer_i |-> i, pres |-> "ok"]

\* pull, lines 137 and 158-162: `continue` and the end of the loop body go to
\* the next layer, and after the last layer pull returns
NextLayer(i, n) ==
    IF i < n THEN [ppc |-> "head", layer_i |-> i + 1, pres |-> ""]
    ELSE [ppc |-> "idle", layer_i |-> i, pres |-> "ok"]

\* the pull goes to position `to`
PullGoto(to) ==
    /\ ppc' = to.ppc
    /\ layer_i' = to.layer_i
    /\ pres' = to.pres

\* the pull ends with an exception
PullRaise(e) == PullGoto([ppc |-> "idle", layer_i |-> layer_i, pres |-> e])

thisLayer == remote.layers[layer_i]
thisFile == layer_filename(layer_i, thisLayer)

\* the image is published, before the first pull: the registry serves r from
\* then on
Publish(r) ==
    /\ remote = NoRemote
    /\ remote' = r
    /\ UNCHANGED <<output_dir, ppc, layer_i, requests, pres, pprev, pstart, notPull>>

\* pull, lines 113-116: a pull of the published image starts;
\* output_dir.mkdir(exist_ok=True)
PullEntry ==
    /\ ppc = "idle"
    /\ remote # NoRemote
    /\ output_dir' = [output_dir EXCEPT !.exists = TRUE]
    /\ pprev' = pres
    /\ pstart' = output_dir.files
    /\ requests' = {}
    /\ PullGoto([ppc |-> "manifest_list", layer_i |-> 0, pres |-> ""])
    /\ UNCHANGED <<remote, notPull>>

\* pull, line 121, and _get_manifest_list
GetManifestList(status_code) ==
    /\ ppc = "manifest_list"
    /\ IF raise_for_status(status_code) THEN PullRaise("HTTPError")
       ELSE PullGoto([ppc |-> "platform", layer_i |-> 0, pres |-> ""])
    /\ UNCHANGED <<remote, output_dir, requests, pprev, pstart, notPull>>

\* pull, line 125
FindPlatform ==
    /\ ppc = "platform"
    /\ LET r == _get_platform_manifest_digest(remote.manifest_list, "amd64", "linux") IN
         IF r.raised # "" THEN PullRaise(r.raised)
         ELSE PullGoto([ppc |-> "image_manifest", layer_i |-> 0, pres |-> ""])
    /\ UNCHANGED <<remote, output_dir, requests, pprev, pstart, notPull>>

\* pull, lines 129-137, and _get_image_manifest
GetImageManifest(status_code) ==
    /\ ppc = "image_manifest"
    /\ IF raise_for_status(status_code) THEN PullRaise("HTTPError")
       ELSE IF remote.layers = <<>> THEN PullRaise("ValueError: No layers found")
       ELSE PullGoto([ppc |-> "head", layer_i |-> 1, pres |-> ""])
    /\ UNCHANGED <<remote, output_dir, requests, pprev, pstart, notPull>>

\* pull, lines 142-144: the HEAD request of layer i
CheckBlob ==
    /\ ppc = "head"
    /\ requests' = requests \cup {<<"HEAD", layer_i, thisLayer>>}
    /\ IF _check_blob_exists(remote.status[thisLayer])
       THEN PullGoto([ppc |-> "exists", layer_i |-> layer_i, pres |-> ""])
       ELSE PullGoto(NextLayer(layer_i, Len(remote.layers)))
    /\ UNCHANGED <<remote, output_dir, pprev, pstart, notPull>>

\* pull, lines 148-153
PathExists ==
    /\ ppc = "exists"
    /\ IF layer_path_exists(output_dir.files, thisFile)
       THEN PullGoto(NextLayer(layer_i, Len(remote.layers)))
       ELSE PullGoto([ppc |-> "get", layer_i |-> layer_i, pres |-> ""])
    /\ UNCHANGED <<remote, output_dir, requests, pprev, pstart, notPull>>

\* _download_blob, lines 88-96: the GET request; the content is kept in
\* memory
GetBlob ==
    /\ ppc = "get"
    /\ requests' = requests \cup {<<"GET", layer_i, thisLayer>>}
    /\ IF raise_for_status(remote.status[thisLayer]) THEN PullRaise("HTTPError")
       ELSE PullGoto([ppc |-> "write_open", layer_i |-> layer_i, pres |-> ""])
    /\ UNCHANGED <<remote, output_dir, pprev, pstart, notPull>>

\* _download_blob, line 99: write_bytes opens the layer path for writing,
\* which creates or truncates the file
WriteOpen ==
    /\ ppc = "write_open"
    /\ output_dir' = [output_dir EXCEPT !.files = Put(@, thisFile, Partial(thisLayer))]
    /\ PullGoto([ppc |-> "write", layer_i |-> layer_i, pres |-> ""])
    /\ UNCHANGED <<remote, requests, pprev, pstart, notPull>>

\* _download_blob, line 99: write_bytes has written the content and closed
\* the file
WriteDone ==
    /\ ppc = "write"
    /\ output_dir' = [output_dir EXCEPT !.files = Put(@, thisFile, Complete(thisLayer))]
    /\ PullGoto(NextLayer(layer_i, Len(remote.layers)))
    /\ UNCHANGED <<remote, requests, pprev, pstart, notPull>>

\* the process of the pull is killed
Interrupt ==
    /\ ppc # "idle"
    /\ PullRaise("interrupted")
    /\ UNCHANGED <<remote, output_dir, requests, pprev, pstart, notPull>>

PullNext ==
    \/ \E r \in Remotes : Publish(r)
    \/ PullEntry
    \/ \E status_code \in {200, 404} : GetManifestList(status_code)
    \/ FindPlatform
    \/ \E status_code \in {200, 404} : GetImageManifest(status_code)
    \/ CheckBlob
    \/ PathExists
    \/ GetBlob
    \/ WriteOpen
    \/ WriteDone
    \/ Interrupt

SpecPull == Init /\ [][PullNext]_vars

\* ------------------------------------------------------------------------
\* container_registry.py: the registry file while _save_containers writes
\* it.  SpecTear splits write_text into the open, which truncates the file,
\* and the write of the document, and lets other processes read in between.
\* ------------------------------------------------------------------------

\* the file right after it was opened for writing: it exists and its text is
\* empty
Truncated == [exists |-> TRUE, data |-> [text |-> ""]]

\* _load_containers, lines 12-18: json.loads raises on a text that is not a
\* whole document
read_containers(f) ==
    IF f = Truncated THEN Raise("JSONDecodeError") ELSE Ok(_load_containers(f))

\* register, lines 50-59: load, check the name, add the record
TearRegisterLoad(p, ip, netns) ==
    LET r == read_containers(file) IN
    /\ tpc[p] = "idle"
    /\ IF r.raised # ""
       THEN observed' = r /\ UNCHANGED <<tpc, tdoc>>
       ELSE IF ProcName[p] \in DOMAIN r.ret
       THEN observed' = Raise("ValueError") /\ UNCHANGED <<tpc, tdoc>>
       ELSE /\ observed' = r
            /\ tdoc' = [tdoc EXCEPT ![p] = Put(r.ret, ProcName[p], Record(ip, netns))]
            /\ tpc' = [tpc EXCEPT ![p] = "open"]
    /\ UNCHANGED <<file, notTear>>

\* unregister, lines 65-66: load and pop
TearUnregisterLoad(p) ==
    LET r == read_containers(file) IN
    /\ tpc[p] = "idle"
    /\ observed' = r
    /\ IF r.raised # ""
       THEN UNCHANGED <<tpc, tdoc>>
       ELSE /\ tdoc' = [tdoc EXCEPT ![p] = Pop(r.ret, ProcName[p])]
            /\ tpc' = [tpc EXCEPT ![p] = "open"]
    /\ UNCHANGED <<file, notTear>>

\* _save_containers, line 24: write_text opens CONTAINERS_FILE with mode "w"
TearOpen(p) ==
    /\ tpc[p] = "open"
    /\ file' = Truncated
    /\ tpc' = [tpc EXCEPT ![p] = "write"]
    /\ UNCHANGED <<tdoc, observed, notTear>>

\* _save_containers, line 24: write_text writes the document and closes
TearWrite(p) ==
    /\ tpc[p] = "write"
    /\ file' = _save_containers(tdoc[p])
    /\ tpc' = [tpc EXCEPT ![p] = "idle"]
    /\ UNCHANGED <<tdoc, observed, notTear>>

\* the writing process is killed between the open and the write
TearCrash(p) ==
    /\ tpc[p] = "write"
    /\ tpc' = [tpc EXCEPT ![p] = "idle"]
    /\ UNCHANGED <<file, tdoc, observed, notTear>>

\* list_all, lines 70-72, called by another process
TearRead ==
    /\ observed' = read_containers(file)
    /\ UNCHANGED <<file, tpc, tdoc, notTear>>

TearNext ==
    \/ \E p \in Procs : \E c \in ProcInputs(p) : TearRegisterLoad(p, c[1], c[2])
    \/ \E p \in Procs : TearUnregisterLoad(p)
    \/ \E p \in Procs : TearOpen(p)
    \/ \E p \in Procs : TearWrite(p)
    \/ \E p \in Procs : TearCrash(p)
    \/ TearRead

SpecTear == Init /\ [][TearNext]_vars

\* ------------------------------------------------------------------------
\* networking.py: ensure_bridge_exists and enable_bridge_forwarding.
\* SpecBridge interleaves the calls of several callers at the netlink,
\* sysctl and iptables operations.
\* ------------------------------------------------------------------------

\* enable_bridge_forwarding, lines 267-278: the rule for the bridge subnet
SubnetRule ==
    Rule("filter", "FORWARD", "", BridgeSubnet, BridgeSubnet, 0, 0, "",
         "ACCEPT", None)

\* enable_bridge_forwarding, lines 281-292: the rule for established connections
EstablishedRule ==
    Rule("filter", "FORWARD", "", None, None, 0, 0, "RELATED,ESTABLISHED",
         "ACCEPT", None)

\* iptables -C
iptables_check(k, rule) == BagIn(rule, k.iptables)

\* iptables -A / -I: one more copy of the rule
iptables_add(k, rule) == [k EXCEPT !.iptables = @ (+) SetToBag({rule})]

\* iptables -D: one copy less when there is one
iptables_delete(k, rule) ==
    IF BagIn(rule, k.iptables)
    THEN [k EXCEPT !.iptables = @ (-) SetToBag({rule})]
    ELSE k

\* sysctl -w key=1
sysctl_set(k, key) == [k EXCEPT !.sysctl = @ \cup {key}]

\* enable_bridge_forwarding: iptables -C, and iptables -I when it fails
InsertIfAbsent(k, rule) ==
    IF iptables_check(k, rule) THEN k ELSE iptables_add(k, rule)

\* enable_bridge_forwarding, one call without interruption
enable_bridge_forwarding(k) ==
    InsertIfAbsent(
        InsertIfAbsent(sysctl_set(k, "net.ipv4.ip_forward"), SubnetRule),
        EstablishedRule)

\* ensure_bridge_exists, one call without interruption
ensure_bridge_exists(k) ==
    IF k.bridge.exists
    THEN enable_bridge_forwarding(k)
    ELSE enable_bridge_forwarding(
             [k EXCEPT !.bridge = [exists |-> TRUE, addr |-> BRIDGE_IP,
                                   up |-> TRUE]])

\* caller p moves to `to` inside ensure_bridge_exists
BridgeStep(p, to) ==
    /\ npc' = [npc EXCEPT ![p] = to]
    /\ UNCHANGED <<ndone, nlast, notNet>>

\* ensure_bridge_exists is called
EnsureCall(p) ==
    /\ npc[p] = "idle"
    /\ BridgeStep(p, "lookup")
    /\ UNCHANGED kernel

\* ensure_bridge_exists, lines 17-23: link_lookup
EnsureLookup(p) ==
    /\ npc[p] = "lookup"
    /\ BridgeStep(p, IF kernel.bridge.exists THEN "sysctl" ELSE "add")
    /\ UNCHANGED kernel

\* ensure_bridge_exists, lines 26-27: link add; NetlinkError when the link is
\* there, which the function re-raises (lines 37-39)
EnsureAdd(p) ==
    /\ npc[p] = "add"
    /\ IF kernel.bridge.exists
       THEN /\ npc' = [npc EXCEPT ![p] = "idle"]
            /\ nlast' = NetCall("ensure_bridge_exists", <<p>>, kernel,
                                Raise("NetlinkError"))
            /\ UNCHANGED <<kernel, ndone, notNet>>
       ELSE /\ kernel' = [kernel EXCEPT !.bridge.exists = TRUE]
            /\ BridgeStep(p, "addr")

\* ensure_bridge_exists, line 30: addr add
EnsureAddr(p) ==
    /\ npc[p] = "addr"
    /\ kernel' = [kernel EXCEPT !.bridge.addr = BRIDGE_IP]
    /\ BridgeStep(p, "up")

\* ensure_bridge_exists, line 31: link set up
EnsureUp(p) ==
    /\ npc[p] = "up"
    /\ kernel' = [kernel EXCEPT !.bridge.up = TRUE]
    /\ BridgeStep(p, "sysctl")

\* enable_bridge_forwarding, line 264
ForwardSysctl(p) ==
    /\ npc[p] = "sysctl"
    /\ kernel' = sysctl_set(kernel, "net.ipv4.ip_forward")
    /\ BridgeStep(p, "check_subnet")

\* enable_bridge_forwarding, lines 267-273 and 281-287: iptables -C
ForwardCheck(p) ==
    /\ npc[p] \in {"check_subnet", "check_established"}
    /\ LET subnet == npc[p] = "check_subnet"
           rule == IF subnet THEN SubnetRule ELSE EstablishedRule IN
       BridgeStep(p, IF iptables_check(kernel, rule)
                     THEN (IF subnet THEN "check_established" ELSE "return")
                     ELSE (IF subnet THEN "insert_subnet" ELSE "insert_established"))
    /\ UNCHANGED kernel

\* enable_bridge_forwarding, lines 274-278 and 288-292: iptables -I
ForwardInsert(p) ==
    /\ npc[p] \in {"insert_subnet", "insert_established"}
    /\ LET subnet == npc[p] = "insert_subnet" IN
       /\ kernel' = iptables_add(kernel, IF subnet THEN SubnetRule
                                                   ELSE EstablishedRule)
       /\ BridgeStep(p, IF subnet THEN "check_established" ELSE "return")

\* ensure_bridge_exists returns
EnsureReturn(p) ==
    /\ npc[p] = "return"
    /\ npc' = [npc EXCEPT ![p] = "idle"]
    /\ ndone' = ndone \cup {p}
    /\ nlast' = NetCall("ensure_bridge_exists", <<p>>, kernel, Ok(None))
    /\ UNCHANGED <<kernel, notNet>>

BridgeNext ==
    \/ \E p \in Procs : EnsureCall(p)
    \/ \E p \in Procs : EnsureLookup(p)
    \/ \E p \in Procs : EnsureAdd(p)
    \/ \E p \in Procs : EnsureAddr(p)
    \/ \E p \in Procs : EnsureUp(p)
    \/ \E p \in Procs : ForwardSysctl(p)
    \/ \E p \in Procs : ForwardCheck(p)
    \/ \E p \in Procs : ForwardInsert(p)
    \/ \E p \in Procs : EnsureReturn(p)

SpecBridge == Init /\ [][BridgeNext]_vars

\* ------------------------------------------------------------------------
\* networking.py: setup_network_namespace and cleanup_network_namespace.
\* SpecNs makes the calls one at a time.
\* ------------------------------------------------------------------------

\* the netns_name arguments: f"shocker-{temp_dir.name}" of a mkdtemp
\* directory, as the part before its last 8 characters and the last 8
NsNames ==
    { <<"shocker-shocker_", "k3x9a0qz">>, <<"shocker-shocker_", "p0m2vw7c">>,
      <<"shocker-shocker_", "zz81h_4e">> }

\* the container_ip arguments
NsIps == { IP(2), IP(3) }

\* netns_name[-8:]
Last8(netns_name) == netns_name[Len(netns_name)]

\* f"veth-{netns_name[-8:]}"
veth_host(netns_name) == <<"veth-", Last8(netns_name)>>

\* link_lookup(ifname=name) and, when the link is found, link del
link_del(k, name) ==
    IF name \in DOMAIN k.veth
    THEN [kernel |-> [k EXCEPT !.veth = Pop(@, name)], raised |-> ""]
    ELSE [kernel |-> k, raised |-> ""]

\* netns.remove
netns_remove(k, netns_name) ==
    IF netns_name \in k.netns
    THEN [kernel |-> [k EXCEPT !.netns = @ \ {netns_name}], raised |-> ""]
    ELSE [kernel |-> k, raised |-> "FileNotFoundError"]

\* a cleanup whose second try block lets the error out
cleanup_network_namespace_reraise(k, netns_name) ==
    LET a == link_del(k, veth_host(netns_name))
        b == netns_remove(a.kernel, netns_name) IN
    [kernel |-> b.kernel,
     res |-> IF b.raised # "" THEN Raise(b.raised) ELSE Ok(None)]

\* cleanup_network_namespace: both try blocks swallow their errors
cleanup_network_namespace(k, netns_name) ==
    LET a == link_del(k, veth_host(netns_name))
        b == netns_remove(a.kernel, netns_name) IN
    [kernel |-> b.kernel, res |-> Ok(None)]

\* setup_network_namespace, lines 107-110: the except clause
setup_failed(k, netns_name, e) ==
    [kernel |-> cleanup_network_namespace(k, netns_name).kernel, res |-> Raise(e)]

\* setup_network_namespace
setup_network_namespace(k, netns_name, ip) ==
    LET k1 == ensure_bridge_exists(k) IN
    IF netns_name \in k1.netns
    THEN setup_failed(k1, netns_name, "FileExistsError")
    ELSE LET k2 == [k1 EXCEPT !.netns = @ \cup {netns_name}] IN
         IF veth_host(netns_name) \in DOMAIN k2.veth
         THEN setup_failed(k2, netns_name, "NetlinkError")
         ELSE [kernel |-> [k2 EXCEPT !.veth =
                              Put(@, veth_host(netns_name),
                                  [peer_ns |-> netns_name, addr |-> ip,
                                   master |-> TRUE])],
               res |-> Ok(netns_name)]

\* a call of networking.py that runs from `kernel` to its end
NetStep(op, args, r) ==
    /\ kernel' = r.kernel
    /\ nlast' = NetCall(op, args, kernel, r.res)
    /\ UNCHANGED <<npc, ndone, notNet>>

NsSetup(netns_name, ip) ==
    NetStep("setup_network_namespace", <<netns_name, ip>>,
            setup_network_namespace(kernel, netns_name, ip))

NsCleanup(netns_name) ==
    NetStep("cleanup_network_namespace", <<netns_name>>,
            cleanup_network_namespace(kernel, netns_name))

NsNext ==
    \/ \E netns_name \in NsNames, ip \in NsIps : NsSetup(netns_name, ip)
    \/ \E netns_name \in NsNames : NsCleanup(netns_name)

SpecNs == Init /\ [][NsNext]_vars

\* ------------------------------------------------------------------------
\* networking.py: setup_port_forwarding and cleanup_port_forwarding.
\* SpecPorts makes the calls one at a time.
\* ------------------------------------------------------------------------

\* the port_mappings arguments, lists of (host_port, container_port)
PortLists ==
    { <<>>, << <<8080, 80>> >>, << <<8080, 80>>, <<8443, 80>> >> }

Localhost == <<127, 0, 0, 1>>

\* setup_port_forwarding, lines 189-219: the rules of one mapping, in the
\* order they are appended
SetupRules(m, ip) ==
    << Rule("filter", "FORWARD", "tcp", None, ip, 0, m[2], "", "ACCEPT", None),
       Rule("filter", "FORWARD", "tcp", ip, None, m[2], 0, "", "ACCEPT", None),
       Rule("nat", "PREROUTING", "tcp", None, None, 0, m[1], "", "DNAT",
            <<ip, m[2]>>),
       Rule("nat", "OUTPUT", "tcp", None, Localhost, 0, m[1], "", "DNAT",
            <<ip, m[2]>>),
       Rule("nat", "POSTROUTING", "tcp", None, ip, 0, m[2], "", "MASQUERADE",
            None) >>

\* a cleanup whose FORWARD rules match the host port
CleanupRulesHostPort(m, ip) ==
    << Rule("nat", "PREROUTING", "tcp", None, None, 0, m[1], "", "DNAT",
            <<ip, m[2]>>),
       Rule("nat", "OUTPUT", "tcp", None, Localhost, 0, m[1], "", "DNAT",
            <<ip, m[2]>>),
       Rule("nat", "POSTROUTING", "tcp", None, ip, 0, m[2], "", "MASQUERADE",
            None),
       Rule("filter", "FORWARD", "tcp", ip, None, m[1], 0, "", "ACCEPT", None),
       Rule("filter", "FORWARD", "tcp", None, ip, 0, m[1], "", "ACCEPT", None) >>

\* cleanup_port_forwarding, lines 228-257: the rules of one mapping, in the
\* order they are deleted
CleanupRules(m, ip) ==
    << Rule("nat", "PREROUTING", "tcp", None, None, 0, m[1], "", "DNAT",
            <<ip, m[2]>>),
       Rule("nat", "OUTPUT", "tcp", None, Localhost, 0, m[1], "", "DNAT",
            <<ip, m[2]>>),
       Rule("nat", "POSTROUTING", "tcp", None, ip, 0, m[2], "", "MASQUERADE",
            None),
       Rule("filter", "FORWARD", "tcp", ip, None, m[2], 0, "", "ACCEPT", None),
       Rule("filter", "FORWARD", "tcp", None, ip, 0, m[2], "", "ACCEPT", None) >>

\* setup_port_forwarding, line 186: the iptables commands of the loop
RECURSIVE SetupCommands(_, _)
SetupCommands(port_mappings, ip) ==
    IF port_mappings = <<>> THEN <<>>
    ELSE SetupRules(Head(port_mappings), ip)
             \o SetupCommands(Tail(port_mappings), ip)

\* cleanup_port_forwarding, line 226: the iptables commands of the loop
RECURSIVE CleanupCommands(_, _)
CleanupCommands(port_mappings, ip) ==
    IF port_mappings = <<>> THEN <<>>
    ELSE CleanupRules(Head(port_mappings), ip)
             \o CleanupCommands(Tail(port_mappings), ip)

\* iptables -A of the first n rules
RECURSIVE AppendAll(_, _, _)
AppendAll(k, rules, n) ==
    IF n = 0 THEN k
    ELSE iptables_add(AppendAll(k, rules, n - 1), rules[n])

\* iptables -D of the first n rules, check=False
RECURSIVE DeleteAll(_, _, _)
DeleteAll(k, rules, n) ==
    IF n = 0 THEN k
    ELSE iptables_delete(DeleteAll(k, rules, n - 1), rules[n])

\* setup_port_forwarding: fail = 0 when every iptables command succeeds,
\* else the command that exits non-zero (check=True raises)
setup_port_forwarding(k, port_mappings, ip, fail) ==
    LET k0 == sysctl_set(sysctl_set(k, "net.ipv4.conf.lo.route_localnet"),
                         "net.ipv4.conf.all.route_localnet")
        cmds == SetupCommands(port_mappings, ip) IN
    IF fail = 0
    THEN [kernel |-> AppendAll(k0, cmds, Len(cmds)), res |-> Ok(None)]
    ELSE [kernel |-> AppendAll(k0, cmds, fail - 1),
          res |-> Raise("CalledProcessError")]

\* cleanup_port_forwarding
cleanup_port_forwarding(k, port_mappings, ip) ==
    LET cmds == CleanupCommands(port_mappings, ip) IN
    [kernel |-> DeleteAll(k, cmds, Len(cmds)), res |-> Ok(None)]

PortsSetup(port_mappings, ip, fail) ==
    /\ BagCardinality(kernel.iptables) + Len(SetupCommands(port_mappings, ip))
           <= MaxRules
    /\ NetStep("setup_port_forwarding", <<port_mappings, ip, fail>>,
               setup_port_forwarding(kernel, port_mappings, ip, fail))

PortsCleanup(port_mappings, ip) ==
    NetStep("cleanup_port_forwarding", <<port_mappings, ip>>,
            cleanup_port_forwarding(kernel, port_mappings, ip))

PortsNext ==
    \/ \E port_mappings \in PortLists, ip \in NsIps :
          \E fail \in 0..Len(SetupCommands(port_mappings, ip)) :
              PortsSetup(port_mappings, ip, fail)
    \/ \E port_mappings \in PortLists, ip \in NsIps :
          PortsCleanup(port_mappings, ip)

SpecPorts == Init /\ [][PortsNext]_vars

\* ------------------------------------------------------------------------
\* Properties of the registry API (Spec)
\* ------------------------------------------------------------------------

\* the ips of the records of a JSON object
RecordIps(d) ==
    { d[k]["ip"].str :
        k \in { x \in DOMAIN d : IsDict(d[x]) /\ "ip" \in DOMAIN d[x] } }

\* the addresses of the containers registered and not unregistered
LiveIps == { live[n][1] : n \in DOMAIN live }

Octets(ips) == { LastOctet(ip) : ip \in ips }

Returned(op) == last.op = op /\ last.raised = ""

\* C2: the address allocate_ip() returns differs from the ip of every record
\* the registry holds at the moment of the call (allocate_ip leaves the file
\* as it is, so the file of the state is the file of the call).
C2_AllocatedIpIsFresh ==
    Returned("allocate_ip") =>
        /\ last.ret \notin RecordIps(list_all(file))
        /\ last.ret \notin RecordIps(file.data)
        /\ last.ret \notin LiveIps

C2_Witness ==
    /\ Returned("allocate_ip")
    /\ Cardinality(RecordIps(list_all(file))) >= 2
    /\ last.ret = IP(6)

\* C4: register(name, ip, netns) of a name that is registered (and was not
\* unregistered since) fails with the name-conflict error and leaves the
\* registry file as it was.
C4_RegisterConflictFails ==
    [][(last'.op = "register" /\ last'.name \in DOMAIN live)
          => (last'.raised = "ValueError" /\ file' = file /\ live' = live)]_vars

\* C5: between a register(name, ip, ns) that returned and the next
\* unregister(name), get_ip(name) returns ip and get_hosts_entries() holds
\* the line "<ip>\t<name>".
C5_RegisteredIsVisible ==
    /\ (last.op = "get_ip" /\ last.name \in DOMAIN live)
           => (last.raised = "" /\ last.ret = live[last.name][1])
    /\ last.op = "get_hosts_entries"
           => (last.raised = ""
               /\ \A n \in DOMAIN live : <<live[n][1], n>> \in last.ret)

\* C6: unregister(name) never fails, leaves no record of name, leaves the
\* record of every other name as it was, and a second unregister(name)
\* changes nothing.
C6_UnregisterIdempotent ==
    [][last'.op = "unregister" =>
          LET name == last'.name IN
          /\ last'.raised = ""
          /\ name \notin DOMAIN list_all(file')
          /\ DOMAIN list_all(file') = DOMAIN list_all(file) \ {name}
          /\ \A m \in DOMAIN list_all(file') :
                 list_all(file')[m] = list_all(file)[m]
          /\ unregister(file', name).file = file']_vars

C6_Witness ==
    /\ Returned("unregister")
    /\ last.had
    /\ Cardinality(RecordIps(list_all(file))) >= 2
    /\ last.name \notin DOMAIN list_all(file)

\* C7: allocate_ip() returns .2 exactly when no container is registered, and
\* with containers registered it returns 1 + the highest last octet.
C7_AllocateNextAfterMax ==
    last.op = "allocate_ip" =>
        /\ last.raised = ""
        /\ (last.ret = IP(2)) <=> (DOMAIN live = {})
        /\ DOMAIN live # {} => last.ret = IP(1 + Max(Octets(LiveIps)))

\* C8: allocate_ip() fails with SubnetExhausted when the next last octet
\* would exceed 254, and never returns .255 or higher.
C8_SubnetExhausted ==
    last.op = "allocate_ip" =>
        /\ last.raised = "" => LastOctet(last.ret) <= 254
        /\ (LiveIps # {} /\ Max(Octets(LiveIps)) >= 254)
               => last.raised = "SubnetExhausted"

\* C9 as claimed: when the container holding .5 has exited and .2, .3 and .4
\* remain registered, the next allocate_ip() returns .6.
C9_NoReclaimOfExited ==
    (/\ last.op = "allocate_ip"
     /\ exited = IP(5)
     /\ Octets(RecordIps(list_all(file))) = {2, 3, 4})
        => last.ret = IP(6)

\* C9 amended: after a container exited, the only address the next
\* allocate_ip() returns is 1 + the highest last octet of the remaining
\* records: a hole below that maximum is not reclaimed, the address of the
\* container that held the maximum is handed out again (.5 after .5 exited
\* while .2, .3, .4 remain).
C9_ReclaimsOnlyTheTop ==
    (/\ Returned("allocate_ip")
     /\ exited # None
     /\ RecordIps(list_all(file)) # {})
        => LET m == Max(Octets(RecordIps(list_all(file)))) IN
           /\ last.ret = IP(m + 1)
           /\ LastOctet(exited) <= m => last.ret # exited
           /\ (exited = IP(5) /\ m = 4) => last.ret = IP(5)

C9_Witness ==
    /\ Returned("allocate_ip")
    /\ exited = IP(5)
    /\ Octets(RecordIps(list_all(file))) = {2, 3, 4}
    /\ last.ret = IP(5)

\* ------------------------------------------------------------------------
\* Properties of run_container (SpecRun)
\* ------------------------------------------------------------------------

\* the runs whose command is running
Live == { p \in Runs : rpc[p] = "running" }

\* C1: with run invocations interleaved, no two live containers hold the same
\* IP address, and the address of every live container has a last octet in
\* 2..254 (two concurrent runs get .2 and .3).
C1_LiveIpsDistinct ==
    /\ \A p \in Live : LastOctet(container_ip[p]) \in 2..254
    /\ \A p \in Live, q \in Live : p # q => container_ip[p] # container_ip[q]

\* what the teardown of run p leaves of the run on the host
OwnLeft(p, v, n, s) ==
    \/ p \in n
    \/ v.exists /\ v.owner = p
    \/ \E x \in s : x[1] = p

\* C10: when a run whose command was spawned ends, its port forwarders, its
\* veth interface and its network namespace are gone and the registry
\* records are the ones before the step; and if no other run took a step
\* while it was under way, the port forwarders, veth interfaces, network
\* namespaces and registry records are those before the run started (the
\* bridge is not compared).
C10_TeardownRestoresHost ==
    [][\A p \in Runs :
          (rpc[p] = "rmtree" /\ rpc'[p] \in {"returned", "raised"} /\ spawned[p]) =>
              /\ ~OwnLeft(p, veth', listnetns', socat')
              /\ list_all(file') = list_all(file)
              /\ ~overlap[p] => Host(file', veth', listnetns', socat') = before[p]]_vars

\* a run with a port forwarder has spawned its command and returned, no other
\* run stepped meanwhile, the bridge is left up and the host is as before
C10_Witness ==
    \E p \in Runs :
        /\ rpc[p] = "returned"
        /\ spawned[p]
        /\ ~overlap[p]
        /\ socat_processes[p] # {}
        /\ bridge.up
        /\ Host(file, veth, listnetns, socat) = before[p]

\* the runs that are over, by return or by exception
Ended == { p \in Runs : rpc[p] \in {"returned", "raised"} }

\* C11: on every exit path of a run after its rootfs directory was created,
\* the rootfs directory, the netns, the veth and the port forwarders of the
\* run are removed before the run ends.
C11_ExitLeavesNothing ==
    \A p \in Ended :
        /\ p \notin rootfs
        /\ ~OwnLeft(p, veth, listnetns, socat)

\* C12: after a run has ended its netns and its rootfs directory are both
\* absent, while its command runs both exist, and when no run is under way
\* the namespaces and the rootfs directories are those of the same runs.
C12_NetnsIffRootfs ==
    /\ \A p \in Ended : p \notin listnetns /\ p \notin rootfs
    /\ \A p \in Live : p \in listnetns /\ p \in rootfs
    /\ (\A p \in Runs : ~UnderWay(p)) => listnetns = rootfs

\* C13: a step of a run never deletes the bridge, and when a run returns the
\* bridge exists while the netns, the veth and the rootfs directory of the
\* run do not.
C13_BridgeStays ==
    [][/\ bridge.exists => bridge'.exists
       /\ \A p \in Runs :
             (UnderWay(p) /\ rpc'[p] = "returned") =>
                 /\ bridge'.exists
                 /\ p \notin listnetns'
                 /\ p \notin rootfs'
                 /\ ~(veth'.exists /\ veth'.owner = p)]_vars

\* one run has returned and another has gone through the failure handling
\* of setup_network_namespace, and the bridge is there
C13_Witness ==
    \E p \in Runs, q \in Runs :
        /\ rpc[p] = "returned"
        /\ rpc[q] = "raised" /\ exc[q] \in {"NetlinkError", "IndexError"}
        /\ bridge.exists

\* C18: a port forwarder of a run exists only once the namespace of the run
\* has been configured: CONTAINER_IP was assigned to eth0 inside the
\* namespace, which exists, and the run is past setup_network_namespace.
C18_ForwardAfterConfig ==
    \A p \in Runs :
        (socat_processes[p] # {} \/ \E s \in socat : s[1] = p) =>
            /\ container_ip[p] = CONTAINER_IP
            /\ rpc[p] \notin {"start", "bridge_lookup", "bridge_add", "bridge_conf",
                              "netns_create", "veth_add", "veth_move",
                              "veth_attach", "ns_config"}
            /\ UnderWay(p) => p \in listnetns \/ rpc[p] = "rmtree"

\* a forwarder listens for a run whose eth0 has CONTAINER_IP and whose veth is
\* attached to the bridge, and the layers are not extracted yet
C18_Witness ==
    \E p \in Runs :
        /\ <<p, 8080>> \in socat
        /\ rpc[p] = "extract"
        /\ veth.exists /\ veth.peer = {p} /\ veth.master
        /\ veth.addr = CONTAINER_IP

\* C19: the port forwarders of a run are removed before its veth and netns
\* are deleted, and no port forwarder of a run targets an address that is
\* assigned to the eth0 of another container.
C19_NoForwardToReusedIp ==
    \A s \in socat :
        /\ s[1] \in listnetns
        /\ rpc[s[1]] \notin {"finally_veth_del", "finally_netns_remove", "rmtree"}
        /\ \A q \in Runs \ {s[1]} :
              ~(veth.exists /\ veth.peer = {q} /\ veth.addr = container_ip[s[1]])

\* C20: the hosts file setup_dns writes is the fixed prelude followed by one
\* line "<ip>\t<name>" for exactly the containers whose register has
\* completed and whose unregister has not happened.
C20_HostsListLive ==
    last.op = "setup_dns" =>
        /\ last.raised = ""
        /\ last.ret.prelude = HostsPrelude
        /\ last.ret.entries = { <<live[n][1], n>> : n \in DOMAIN live }

\* ------------------------------------------------------------------------
\* Properties of networking.py (SpecBridge, SpecNs, SpecPorts)
\* ------------------------------------------------------------------------

\* C14: once ensure_bridge_exists has returned and no call is under way, the
\* kernel state is the one a single call leaves: the bridge with BRIDGE_IP
\* and up, one copy of each of the two forwarding rules, IPv4 forwarding on.
C14_EnsureBridgeIdempotent ==
    (ndone # {} /\ \A p \in Procs : npc[p] = "idle") =>
        /\ kernel = ensure_bridge_exists(NoKernel)
        /\ CopiesIn(SubnetRule, kernel.iptables) = 1
        /\ CopiesIn(EstablishedRule, kernel.iptables) = 1

\* C15: cleanup_network_namespace(ns) never raises, leaves neither the
\* host-side veth of ns nor the namespace, changes nothing when both were
\* absent, and a second call on the same name returns without error and
\* changes nothing.
C15_CleanupNeverRaises ==
    nlast.op = "cleanup_network_namespace" =>
        LET ns == nlast.args[1] IN
        /\ nlast.raised = ""
        /\ ns \notin kernel.netns
        /\ veth_host(ns) \notin DOMAIN kernel.veth
        /\ (ns \notin nlast.before.netns
               /\ veth_host(ns) \notin DOMAIN nlast.before.veth)
              => kernel = nlast.before
        /\ cleanup_network_namespace(kernel, ns) = [kernel |-> kernel, res |-> Ok(None)]

\* the cleanup of a namespace that existed with its veth, next to another
\* namespace that is still there
C15_Witness ==
    /\ nlast.op = "cleanup_network_namespace"
    /\ nlast.args[1] \in nlast.before.netns
    /\ veth_host(nlast.args[1]) \in DOMAIN nlast.before.veth
    /\ kernel.netns # {}
    /\ kernel.bridge.up

\* the rules of all the mappings of a list, as a bag
RulesOf(port_mappings, ip) ==
    LET cmds == SetupCommands(port_mappings, ip) IN
    AppendAll(NoKernel, cmds, Len(cmds)).iptables

\* C16: a cleanup_port_forwarding that follows a setup_port_forwarding with
\* the same mappings and address deletes the five rules per mapping the setup
\* added, so the rules are again those before the setup; and no
\* cleanup_port_forwarding fails, whether the rules are there or not.
C16_CleanupUndoesSetup ==
    [][nlast'.op = "cleanup_port_forwarding" =>
          /\ nlast'.raised = ""
          /\ (nlast.op = "setup_port_forwarding" /\ nlast.raised = ""
                 /\ nlast'.args = <<nlast.args[1], nlast.args[2]>>) =>
                /\ kernel.iptables
                      = nlast.before.iptables (+) RulesOf(nlast.args[1], nlast.args[2])
                /\ BagCardinality(kernel.iptables)
                      = BagCardinality(nlast.before.iptables) + 5 * Len(nlast.args[1])
                /\ kernel'.iptables = nlast.before.iptables]_vars

\* a cleanup has deleted the five rules of each of its mappings and other
\* rules are still there
C16_Witness ==
    /\ nlast.op = "cleanup_port_forwarding"
    /\ Len(nlast.args[1]) >= 1
    /\ BagCardinality(nlast.before.iptables)
           = BagCardinality(kernel.iptables) + 5 * Len(nlast.args[1])
    /\ kernel.iptables # EmptyBag

\* the rules of the first n mappings of a list, as a bag
RulesOfFirst(port_mappings, ip, n) ==
    RulesOf(SubSeq(port_mappings, 1, n), ip)

\* C17: a setup_port_forwarding that fails raises PortForwardFailed and
\* leaves, besides the rules there were, the five rules of each earlier
\* mapping and no rule of the mapping that failed.
C17_FailedMappingRolledBack ==
    (nlast.op = "setup_port_forwarding" /\ nlast.raised # "") =>
        /\ nlast.raised = "PortForwardFailed"
        /\ \E n \in 0..Len(nlast.args[1]) :
              kernel.iptables
                  = nlast.before.iptables (+) RulesOfFirst(nlast.args[1], nlast.args[2], n)

\* C21: a command that exits with a non-zero code is not a failure of the
\* run: every run whose command was started ends by returning, not by
\* raising.
C21_NonZeroExitReturns ==
    \A p \in Ended : spawned[p] => rpc[p] = "returned" /\ exc[p] = ""

\* C22: a run fails at entry with a permission error when the effective user
\* is not root and with an image-not-found error when the image directory is
\* missing or holds no layer file, and the failing entry creates no rootfs,
\* namespace, veth, port forward or registry record.
C22_EntryFailureCreatesNothing ==
    /\ \A euid \in Euids, image_dir \in ImageDirs :
          entry_checks(euid, image_dir) =
             IF euid # 0 THEN "PermissionError"
             ELSE IF image_dir # "layers" THEN "FileNotFoundError"
             ELSE "ok"
    /\ [][\A p \in Runs :
            (/\ ~UnderWay(p)
             /\ rpc'[p] = "raised"
             /\ \E check \in EntryOutcomes \ {"ok"} : RunEntry(p, check)) =>
               /\ exc'[p] \in {"PermissionError", "FileNotFoundError"}
               /\ rootfs' = rootfs /\ listnetns' = listnetns /\ veth' = veth
               /\ socat' = socat /\ file' = file /\ bridge' = bridge]_vars

\* a run has failed at entry while another run holds its resources
C22_Witness ==
    \E p \in Runs : /\ rpc[p] = "raised"
                     /\ exc[p] \in {"PermissionError", "FileNotFoundError"}
                     /\ \E q \in Runs \ {p} : q \in Live

\* the layers of run p have all been extracted into its rootfs
LayersExtracted(p) == rpc[p] \in {"spawn", "running"} \/ spawned[p]

\* the positions of run_container between the creation of the namespace and
\* the extraction of the layers
NetworkSetup ==
    {"veth_add", "veth_move", "veth_attach", "ns_config", "ports", "extract"}

\* C30: a run passes its steps in order: the rootfs is built, with all layers
\* extracted, before the network namespace is set up and before the ports are
\* set up; so a run that holds a namespace or a forwarder during setup has
\* its layers extracted.
C30_RootfsBuiltBeforeNetwork ==
    \A p \in Runs :
       (rpc[p] \in NetworkSetup /\ (p \in listnetns \/ socat_processes[p] # {}))
          => LayersExtracted(p)

\* run p was signalled while its command ran and the invocation is over
Signalled(p) ==
    \/ rpc[p] = "terminated"
    \/ rpc[p] = "raised" /\ exc[p] = "KeyboardInterrupt"

\* C29: when SIGINT or SIGTERM arrives while the command runs, the command is
\* sent SIGTERM and then SIGKILL, and the cleanup is complete when the
\* invocation is over: no forwarder, namespace, veth or rootfs of the run is
\* left.
C29_SignalStopsChildAndCleansUp ==
    \A p \in Runs :
       Signalled(p) =>
          /\ child[p] = <<"SIGTERM", "SIGKILL">>
          /\ p \notin listnetns
          /\ p \notin rootfs
          /\ \A h \in socat_processes[p] : <<p, h>> \notin socat

\* the names of the layer files of the published manifest
ManifestFiles ==
    { layer_filename(i, remote.layers[i]) : i \in 1..Len(remote.layers) }

\* C23: pull is idempotent: no pull issues a blob GET for a layer whose file
\* was present when it started, and a pull that succeeds after a successful
\* pull leaves the files of the image directory and their contents as they
\* were.
C23_PullIdempotent ==
    /\ \A r \in requests :
          r[1] = "GET" => layer_filename(r[2], r[3]) \notin DOMAIN pstart
    /\ (ppc = "idle" /\ pres = "ok" /\ pprev = "ok") => output_dir.files = pstart

\* a second pull has succeeded with every layer file there from the first
C23_Witness ==
    /\ ppc = "idle" /\ pres = "ok" /\ pprev = "ok"
    /\ ManifestFiles # {} /\ DOMAIN pstart = ManifestFiles
    /\ \E r \in requests : r[1] = "HEAD"

\* C24: after a pull has returned successfully the image directory holds
\* exactly one layer file for each layer of the manifest, numbered 1..len
\* without gaps.
C24_ExactlyTheManifestLayers ==
    (ppc = "idle" /\ pres = "ok") => DOMAIN output_dir.files = ManifestFiles

\* C25: a layer whose existence check reports the blob absent is skipped
\* without failing the pull: the step goes on to the next layer, or returns
\* successfully after the last, and a pull that succeeds has the file of
\* every layer whose blob the check reports present.
C25_AbsentBlobSkipped ==
    /\ (ppc = "idle" /\ pres = "ok") =>
          \A i \in 1..Len(remote.layers) :
             _check_blob_exists(remote.status[remote.layers[i]]) =>
                layer_filename(i, remote.layers[i]) \in DOMAIN output_dir.files
    /\ [][(CheckBlob /\ remote.status[thisLayer] > 400) =>
            /\ output_dir' = output_dir
            /\ IF layer_i < Len(remote.layers)
               THEN ppc' = "head" /\ layer_i' = layer_i + 1 /\ pres' = ""
               ELSE ppc' = "idle" /\ pres' = "ok"]_vars

\* a pull has succeeded that skipped the first layer and downloaded the
\* second
C25_Witness ==
    /\ ppc = "idle" /\ pres = "ok"
    /\ Len(remote.layers) = 2
    /\ remote.status[remote.layers[1]] = 404
    /\ <<"HEAD", 1, remote.layers[1]>> \in requests
    /\ <<"GET", 2, remote.layers[2]>> \in requests
    /\ DOMAIN output_dir.files = {layer_filename(2, remote.layers[2])}

\* the published manifest list has no entry for linux/amd64
NoPlatformEntry ==
    /\ remote # NoRemote
    /\ \A k \in 1..Len(remote.manifest_list) :
          remote.manifest_list[k].platform # [architecture |-> "amd64", os |-> "linux"]

\* C26: when the manifest list has no entry for the requested platform the
\* pull fails with the platform error before any blob HEAD or GET request and
\* without writing a layer file.
C26_NoPlatformFailsBeforeBlobs ==
    NoPlatformEntry =>
       /\ requests = {}
       /\ output_dir.files = EmptyDict
       /\ ppc \in {"idle", "manifest_list", "platform"}
       /\ pres \in {"", "HTTPError", "interrupted", "ValueError: Platform not found"}

\* a pull has failed with the platform error
C26_Witness ==
    /\ NoPlatformEntry
    /\ ppc = "idle" /\ pres = "ValueError: Platform not found"
    /\ output_dir.exists

\* C27: an interrupted pull leaves no partially written file at a layer
\* path, so between pulls every layer file holds its whole blob, also after
\* a resumed pull has succeeded.
C27_NoPartialLayerFile ==
    ppc = "idle" =>
       \A f \in DOMAIN output_dir.files : output_dir.files[f].complete

\* C28: registry writes are tear-free: whoever reads the registry file gets
\* the whole previous document or the whole new one, so no read fails on an
\* empty or partial file.
C28_ReadersSeeWholeDocument == observed.raised # "JSONDecodeError"

\* the setup_network_namespace of run p has failed and re-raised
SetupFailed(p) == rpc[p] = "raised" /\ exc[p] \in {"NetlinkError", "IndexError"}

\* C31: when setup_network_namespace fails it removes the namespace and the
\* host-side veth it created before it re-raises: a failed setup leaves no
\* namespace and no veth of its run behind.
C31_FailedSetupLeavesNoNetwork ==
    \A p \in Runs :
       SetupFailed(p) => p \notin listnetns /\ ~(veth.exists /\ veth.owner = p)

\* a setup has failed after it had created its namespace and its veth pair
C31_Witness ==
    \E p \in Runs : SetupFailed(p) /\ exc[p] = "IndexError"

\* C32: the setup-failure handling and the teardown of one invocation never
\* remove the host-side veth of another live container: while the command of
\* a run is running, the veth that run created is there.
C32_LiveVethKept ==
    \A p \in Live : veth.exists /\ veth.owner = p

\* the map of container records that the calls so far have registered
LiveRecords == [n \in DOMAIN live |-> Record(live[n][1], live[n][2])]

\* a registry file with the document `data`
FileOf(data) == [exists |-> TRUE, data |-> data]

\* C33: the registry file round-trips: for every map of container records,
\* one with a container named "containers" included, loading the file the
\* writer wrote returns the same map, and the reader returns the map for the
\* flat shape and for the shape wrapped in a "containers" key alike.
C33_RegistryRoundTrips ==
    /\ _load_containers(_save_containers(LiveRecords)) = LiveRecords
    /\ _load_containers(FileOf(LiveRecords)) = LiveRecords
    /\ _load_containers(FileOf([containers |-> LiveRecords])) = LiveRecords

====
